---- MODULE Spec2Model ----
(***************************************************************************)
(* Model of vba-mcp-server (package "pro"): the Office session manager,    *)
(* the VBA injection pipeline, the macro runner's security bracket and the *)
(* backup tool.                                                            *)
(***************************************************************************)
EXTENDS Integers, Sequences, FiniteSets, TLC

VARIABLES
    sessions,     \* OfficeSessionManager._sessions: insertion-ordered dict file_key -> session
    sess,         \* every OfficeSession object ever constructed (and the host it drives)
    proj,         \* the live VBA project inside each session's host
    disk,         \* container files on disk: path -> saved VBA project
    bdir,         \* the files of the .vba_backups directory: name -> content
    manifest,     \* .vba_backups/.vba_backups.json: the list of backup entries
    extLock,      \* paths held open by an application outside the server
    now,          \* wall clock (seconds)
    cleanupTask,  \* state of OfficeSessionManager._cleanup_task
    calls,        \* number of tool calls made so far (counted up to MaxCalls)
    oplog,        \* host/registry calls made by the last handler, in order
    ret           \* the last handler: its name, arguments and outcome

vars == <<sessions, sess, proj, disk, bdir, manifest, extLock, now, cleanupTask, calls, oplog, ret>>

-----------------------------------------------------------------------------
(* Bounds *)

MaxSessions == 2
MaxTime == 7200
TickStep == 3600
MaxCalls == 3

(* Program constants *)

SESSION_TIMEOUT == 3600
CLEANUP_INTERVAL == 300
ASCII_MAX == 127

\* MsoAutomationSecurity
msoAutomationSecurityLow == 1
msoAutomationSecurityByUI == 2
msoAutomationSecurityForceDisable == 3

-----------------------------------------------------------------------------
(* Paths *)

RawPaths == {"x.xlsm", "./x.xlsm", "d.accdb"}

\* Path.resolve(): the absolute, normalised form of a path
resolve(raw) == IF raw = "./x.xlsm" THEN "x.xlsm" ELSE raw

Paths == {resolve(r) : r \in RawPaths}

\* application family by suffix
AppTypeOf(p) == IF p = "d.accdb" THEN "Access" ELSE "Excel"

-----------------------------------------------------------------------------
(* VBA source text: a body is a sequence of lines; a line is its leading    *)
(* statement keyword and the largest codepoint that occurs in it.           *)

L(kw) == [kw |-> kw, cp |-> 65]
Lc(kw, cp) == [kw |-> kw, cp |-> cp]

BodyOK         == <<L("Sub"), L("Stmt"), L("EndSub")>>
BodyOK2        == <<L("Sub"), L("If"), L("EndIf"), L("EndSub")>>
BodyUnclosedIf == <<L("Sub"), L("If"), L("Stmt"), L("EndSub")>>
BodyNonAscii   == <<L("Sub"), Lc("Stmt", 233), L("EndSub")>>
BodyEmpty      == <<>>

NoModule == <<L("<absent>")>>

\* Python's None where a body is expected
None == <<L("<None>")>>

\* (a check that lets the Latin-1 range through)
_detect_non_ascii_latin1(code) == \E i \in 1..Len(code) : code[i].cp > 255

\* _detect_non_ascii: some character of the text has ord(char) > 127
_detect_non_ascii(code) == \E i \in 1..Len(code) : code[i].cp > ASCII_MAX

\* _normalize_vba_code: drop the "Option Compare ..." lines, then the blank
\* lines at both ends
RECURSIVE DropLeadingBlank(_)
DropLeadingBlank(c) ==
    IF c # <<>> /\ Head(c).kw = "Blank" THEN DropLeadingBlank(Tail(c)) ELSE c

RECURSIVE DropTrailingBlank(_)
DropTrailingBlank(c) ==
    IF c # <<>> /\ c[Len(c)].kw = "Blank"
    THEN DropTrailingBlank(SubSeq(c, 1, Len(c) - 1)) ELSE c

IsKept(l) == l.kw # "OptionCompare"

_normalize_vba_code(code) ==
    DropTrailingBlank(DropLeadingBlank(SelectSeq(code, IsKept)))

\* _check_vba_syntax: the eight block counters
BlockKinds == {"If", "For", "While", "Do", "With", "Select", "Sub", "Function"}

Opener(kw) == IF kw \in BlockKinds THEN kw ELSE ""

Closer(kw) ==
    CASE kw = "EndIf"       -> "If"
      [] kw = "Next"        -> "For"
      [] kw = "Wend"        -> "While"
      [] kw = "Loop"        -> "Do"
      [] kw = "EndWith"     -> "With"
      [] kw = "EndSelect"   -> "Select"
      [] kw = "EndSub"      -> "Sub"
      [] kw = "EndFunction" -> "Function"
      [] OTHER              -> ""

\* the scan of the lines: FALSE as soon as a closer has no opener, otherwise
\* whether no counter is left above zero
RECURSIVE ScanLines(_, _, _)
ScanLines(code, i, cnt) ==
    IF i > Len(code)
    THEN \A k \in BlockKinds : cnt[k] = 0
    ELSE LET kw == code[i].kw
         IN IF Opener(kw) # ""
            THEN ScanLines(code, i + 1, [cnt EXCEPT ![Opener(kw)] = @ + 1])
            ELSE IF Closer(kw) # ""
            THEN IF cnt[Closer(kw)] = 0
                 THEN FALSE
                 ELSE ScanLines(code, i + 1, [cnt EXCEPT ![Closer(kw)] = @ - 1])
            ELSE ScanLines(code, i + 1, cnt)

_check_vba_syntax(code) == ScanLines(code, 1, [k \in BlockKinds |-> 0])

\* _compile_vba_module on a module whose text is code: an empty module
\* passes; otherwise the block check, then ProcOfLine on every line, which
\* the host answers with a compile error on a line it cannot parse
_compile_vba_module(code) ==
    IF Len(code) = 0 THEN TRUE
    ELSE /\ _check_vba_syntax(code)
         /\ \A i \in 1..Len(code) : code[i].kw # "Bad"

ModuleNames == {"M1", "M2"}

-----------------------------------------------------------------------------
(* Sessions *)

NoSession == 0
SessionIds == 1..MaxSessions

NullSess == [file_path |-> "", app_type |-> "", read_only |-> FALSE,
             status |-> "none", running |-> FALSE, fileOpen |-> FALSE,
             last_accessed |-> 0, vb_cached |-> FALSE, sec |-> 0]

EmptyProject == [m \in ModuleNames |-> NoModule]

\* an empty directory
NoFiles == [n \in {} |-> EmptyProject]

Ev(e, sid, key, flag) == [ev |-> e, sid |-> sid, key |-> key, flag |-> flag]

\* the part of the state a handler changes while it runs
Cur == [sessions |-> sessions, sess |-> sess, proj |-> proj, disk |-> disk,
        bdir |-> bdir, manifest |-> manifest, log |-> <<>>]

Log(st, e) == [st EXCEPT !.log = Append(@, e)]

\* evaluate v once and hand its value to F
Bind(v, F(_)) == CHOOSE r \in {F(x) : x \in {v}} : TRUE

\* OfficeSession.is_alive: app.Name and the file object's Name still answer
is_alive(s) == s.running /\ s.fileOpen

\* (a reuse that leaves the timestamp alone)
refresh_last_accessed_skipped(st, sid) == st

\* OfficeSession.refresh_last_accessed
refresh_last_accessed(st, sid) ==
    [st EXCEPT !.sess[sid].last_accessed = now]

-----------------------------------------------------------------------------
(* The registry: a Python dict, i.e. an insertion-ordered map              *)

RECURSIVE IndexOf(_, _, _)
IndexOf(reg, k, i) ==
    IF i > Len(reg) THEN 0
    ELSE IF reg[i].key = k THEN i ELSE IndexOf(reg, k, i + 1)

\* file_key in self._sessions
Has(reg, k) == IndexOf(reg, k, 1) # 0

\* self._sessions[file_key]
Get(reg, k) == IF Has(reg, k) THEN reg[IndexOf(reg, k, 1)].sid ELSE NoSession

\* (a list that is appended to instead of a dict that is assigned into)
PutAppend(reg, k, sid) == Append(reg, [key |-> k, sid |-> sid])

\* self._sessions[file_key] = session
Put(reg, k, sid) ==
    IF Has(reg, k)
    THEN [reg EXCEPT ![IndexOf(reg, k, 1)].sid = sid]
    ELSE Append(reg, [key |-> k, sid |-> sid])

\* del self._sessions[file_key]
Del(reg, k) ==
    LET i == IndexOf(reg, k, 1)
    IN IF i = 0 THEN reg
       ELSE SubSeq(reg, 1, i - 1) \o SubSeq(reg, i + 1, Len(reg))

\* (a key list that stops after the first entry)
KeysFirst(reg) == IF reg = <<>> THEN <<>> ELSE <<Head(reg).key>>

\* list(self._sessions.keys())
RECURSIVE Keys(_)
Keys(reg) == IF reg = <<>> THEN <<>> ELSE <<Head(reg).key>> \o Keys(Tail(reg))

-----------------------------------------------------------------------------
(* Closing a session *)

\* (a release that starts with the host reference)
_release_com_objects_reversed(st0, sid) ==
    Bind(st0, LAMBDA st :
        LET st1 == Log(Log(st, Ev("release_app", sid, "", TRUE)),
                       Ev("release_file", sid, "", TRUE))
        IN IF st.sess[sid].vb_cached
           THEN Log([st1 EXCEPT !.sess[sid].vb_cached = FALSE],
                    Ev("release_vb", sid, "", TRUE))
           ELSE st1)

\* OfficeSessionManager._release_com_objects
_release_com_objects(st0, sid) ==
    Bind(st0, LAMBDA st :
        Log(Log(IF st.sess[sid].vb_cached
                THEN Log([st EXCEPT !.sess[sid].vb_cached = FALSE],
                         Ev("release_vb", sid, "", TRUE))
                ELSE st,
                Ev("release_file", sid, "", TRUE)),
            Ev("release_app", sid, "", TRUE)))

\* OfficeSessionManager._close_session_internal
\* A host call on a dead COM object raises; each call sits in its own
\* try/except, so the later steps still run.
_close_session_internal(st0, sid, save) ==
    Bind(st0, LAMBDA st :
        LET s      == st.sess[sid]
            doSave == save /\ ~s.read_only /\ s.app_type \in {"Excel", "Word"}
            saveOk == is_alive(s)
            st1 == IF doSave
                   THEN Log(IF saveOk
                            THEN [st EXCEPT !.disk[s.file_path] = st.proj[sid]]
                            ELSE st,
                            Ev("save", sid, "", saveOk))
                   ELSE st
            st2 == Log([st1 EXCEPT !.sess[sid].fileOpen = FALSE],
                       Ev("close", sid, "", is_alive(s)))
            st3 == Log([st2 EXCEPT !.sess[sid].running = FALSE],
                       Ev("quit", sid, "", s.running))
            st4 == _release_com_objects(st3, sid)
        IN Log([st4 EXCEPT !.sess[sid] = NullSess,
                           !.proj[sid] = EmptyProject],
               Ev("CoUninitialize", sid, "", TRUE)))

\* (a stale entry that is left alone)
_force_close_session_skipped(st0, file_key) == st0

\* OfficeSessionManager._force_close_session
_force_close_session(st0, file_key) ==
    Bind(st0, LAMBDA st :
        IF Has(st.sessions, file_key)
        THEN LET sid == Get(st.sessions, file_key)
                 st1 == _close_session_internal(st, sid, FALSE)
             IN Log([st1 EXCEPT !.sessions = Del(@, file_key)],
                    Ev("del", sid, file_key, TRUE))
        ELSE st)

\* the loop "for file_key in keys: close internal; del" shared by
\* close_all_sessions and _cleanup_stale_sessions
RECURSIVE CloseEach(_, _, _)
CloseEach(st0, keys0, save) ==
    Bind(<<st0, keys0>>, LAMBDA a :
        LET st   == a[1]
            keys == a[2]
        IN IF keys = <<>> THEN st
           ELSE LET k   == Head(keys)
                    sid == Get(st.sessions, k)
                    st1 == _close_session_internal(st, sid, save)
                    st2 == Log([st1 EXCEPT !.sessions = Del(@, k)],
                               Ev("del", sid, k, TRUE))
                IN CloseEach(st2, Tail(keys), save))

-----------------------------------------------------------------------------
(* Opening a session *)

\* OfficeSessionManager._check_file_lock: CreateFile with no sharing fails
\* while any process holds the file.  Hosts of this process count too; whether
\* a host that opened the file read-only keeps a handle on it is left open
\* (heldRO).
_check_file_lock(st, file_path, heldRO) ==
    \/ file_path \in extLock
    \/ \E i \in SessionIds :
          /\ st.sess[i].file_path = file_path
          /\ is_alive(st.sess[i])
          /\ (~st.sess[i].read_only \/ heldRO)

\* a session object no handler and no host refers to any more
Garbage(st, i) ==
    /\ ~st.sess[i].running
    /\ \A j \in 1..Len(st.sessions) : st.sessions[j].sid # i

\* identity of the next OfficeSession object
FreshSid(st) ==
    IF \E i \in SessionIds : Garbage(st, i)
    THEN CHOOSE i \in SessionIds :
            Garbage(st, i) /\ \A j \in SessionIds : Garbage(st, j) => i <= j
    ELSE NoSession

\* OfficeSessionManager._create_session together with _open_file
\* (the container exists, the platform is Windows with pywin32)
_create_session(st0, file_path, read_only, openOk) ==
    Bind(st0, LAMBDA st :
        LET sid == FreshSid(st)
            s   == [file_path |-> file_path, app_type |-> AppTypeOf(file_path),
                    read_only |-> read_only,
                    status |-> IF openOk THEN "open" ELSE "failed",
                    running |-> TRUE, fileOpen |-> openOk,
                    last_accessed |-> now, vb_cached |-> FALSE,
                    sec |-> msoAutomationSecurityByUI]
            st1 == Log(st, Ev("CoInitialize", sid, file_path, TRUE))
            st2 == Log([st1 EXCEPT !.sess[sid] = s,
                                   !.proj[sid] = IF openOk THEN st.disk[file_path]
                                                 ELSE EmptyProject],
                       Ev("Dispatch", sid, file_path, TRUE))
            st3 == Log(st2, Ev("Open", sid, file_path, openOk))
        IN IF sid = NoSession
           THEN [st |-> st, sid |-> NoSession, err |-> "overflow"]
           ELSE IF openOk
           THEN [st |-> st3, sid |-> sid, err |-> "none"]
           ELSE [st |-> Log(st3, Ev("CoUninitialize", sid, file_path, TRUE)),
                 sid |-> NoSession, err |-> "RuntimeError"])

\* (the locked branch hands back whatever the registry holds)
file_is_locked_reuse(st0, file_key) ==
    Bind(st0, LAMBDA st :
        LET cur == Get(st.sessions, file_key)
        IN IF Has(st.sessions, file_key)
           THEN [st |-> refresh_last_accessed(st, cur), sid |-> cur, err |-> "none"]
           ELSE [st |-> st, sid |-> NoSession, err |-> "PermissionError"])

\* OfficeSessionManager.get_or_create_session, the branch taken when
\* _check_file_lock answers True
file_is_locked(st0, file_key) ==
    Bind(st0, LAMBDA st :
        LET cur == Get(st.sessions, file_key)
        IN IF Has(st.sessions, file_key)
           THEN IF is_alive(st.sess[cur])
                THEN [st  |-> refresh_last_accessed(
                                 Log(st, Ev("is_alive", cur, file_key, TRUE)), cur),
                      sid |-> cur, err |-> "none"]
                ELSE [st  |-> Log(st, Ev("is_alive", cur, file_key, FALSE)),
                      sid |-> NoSession, err |-> "PermissionError"]
           ELSE [st |-> st, sid |-> NoSession, err |-> "PermissionError"])

\* get_or_create_session once the first probe has not returned: the lock
\* check, then the locked branch or the creation and registration
check_and_create(st0, file_path, read_only, heldRO, openOk) ==
    Bind(st0, LAMBDA st1 :
        LET file_key == file_path
            locked   == _check_file_lock(st1, file_path, heldRO)
            st2      == Log(st1, Ev("check_file_lock", NoSession, file_key, locked))
        IN IF locked
           THEN file_is_locked(st2, file_key)
           ELSE Bind(_create_session(st2, file_path, read_only, openOk), LAMBDA c :
                    IF c.err = "none"
                    THEN [st  |-> Log([c.st EXCEPT !.sessions = Put(@, file_key, c.sid)],
                                      Ev("set", c.sid, file_key, TRUE)),
                          sid |-> c.sid, err |-> "none"]
                    ELSE c))

\* OfficeSessionManager.get_or_create_session (body of "async with self._lock")
get_or_create_session(st00, raw, read_only, force_new, heldRO, openOk) ==
    Bind(st00, LAMBDA st0 :
        LET file_path == resolve(raw)
            file_key  == file_path
            old       == Get(st0.sessions, file_key)
            hit       == Has(st0.sessions, file_key) /\ ~force_new
            oldAlive  == hit /\ is_alive(st0.sess[old])
        IN IF hit /\ oldAlive
           THEN [st  |-> refresh_last_accessed(
                            Log(st0, Ev("is_alive", old, file_key, TRUE)), old),
                 sid |-> old, err |-> "none"]
           ELSE check_and_create(
                    IF hit
                    THEN _force_close_session(
                            Log(st0, Ev("is_alive", old, file_key, FALSE)), file_key)
                    ELSE st0,
                    file_path, read_only, heldRO, openOk))

-----------------------------------------------------------------------------
(* Handlers of the session manager *)

Commit(st0) ==
    \E st \in {st0} :
        /\ sessions' = st.sessions
        /\ sess' = st.sess
        /\ proj' = st.proj
        /\ disk' = st.disk
        /\ bdir' = st.bdir
        /\ manifest' = st.manifest
        /\ calls' = IF calls < MaxCalls THEN calls + 1 ELSE calls
        /\ oplog' = st.log

\* a call of OfficeSessionManager.get_or_create_session
GetOrCreateSession(raw, read_only, force_new, heldRO, openOk) ==
    \* inputs that are not consulted are fixed
    /\ heldRO => \E i \in SessionIds :
                    /\ sess[i].file_path = resolve(raw)
                    /\ sess[i].read_only /\ is_alive(sess[i])
    /\ \E r \in {get_or_create_session(Cur, raw, read_only, force_new, heldRO, openOk)} :
          /\ r.err # "overflow"
          /\ ~openOk => \E i \in 1..Len(r.st.log) : r.st.log[i].ev = "Dispatch"
          /\ Commit(r.st)
          /\ ret' = [op |-> "get_or_create_session", raw |-> raw, key |-> resolve(raw),
                     read_only |-> read_only, force_new |-> force_new,
                     sid |-> r.sid, err |-> r.err]
    /\ UNCHANGED <<extLock, now, cleanupTask>>

\* OfficeSessionManager.close_session
CloseSession(raw, save) ==
    LET file_key == resolve(raw)
        sid == Get(sessions, file_key)
    IN /\ IF ~Has(sessions, file_key)
          THEN /\ Commit(Cur)
               /\ ret' = [op |-> "close_session", key |-> file_key, save |-> save,
                          sid |-> NoSession, err |-> "ValueError"]
          ELSE /\ Commit(Log([_close_session_internal(Cur, sid, save)
                                 EXCEPT !.sessions = Del(@, file_key)],
                              Ev("del", sid, file_key, TRUE)))
               /\ ret' = [op |-> "close_session", key |-> file_key, save |-> save,
                          sid |-> sid, err |-> "none"]
       /\ UNCHANGED <<extLock, now, cleanupTask>>

\* OfficeSessionManager.close_all_sessions
CloseAllSessions(save) ==
    /\ Commit(CloseEach(Cur, Keys(sessions), save))
    /\ ret' = [op |-> "close_all_sessions", save |-> save, err |-> "none"]
    /\ UNCHANGED <<extLock, now, cleanupTask>>

\* (a collection that looks at the idle time only)
RECURSIVE StaleKeysIdleOnly(_, _)
StaleKeysIdleOnly(reg, i) ==
    IF i > Len(reg) THEN <<>>
    ELSE IF now - sess[reg[i].sid].last_accessed > SESSION_TIMEOUT
         THEN <<reg[i].key>> \o StaleKeysIdleOnly(reg, i + 1)
         ELSE StaleKeysIdleOnly(reg, i + 1)

\* the keys _cleanup_stale_sessions collects: idle for longer than the
\* timeout, or no longer alive
RECURSIVE StaleKeys(_, _)
StaleKeys(reg, i) ==
    IF i > Len(reg) THEN <<>>
    ELSE LET s == sess[reg[i].sid]
         IN IF now - s.last_accessed > SESSION_TIMEOUT \/ ~is_alive(s)
            THEN <<reg[i].key>> \o StaleKeys(reg, i + 1)
            ELSE StaleKeys(reg, i + 1)

\* (an eviction that closes without saving)
CleanupPassNoSave ==
    /\ cleanupTask = "running"
    /\ Commit(CloseEach(Cur, StaleKeys(sessions, 1), FALSE))
    /\ ret' = [op |-> "cleanup", stale |-> StaleKeys(sessions, 1), err |-> "none"]
    /\ UNCHANGED <<extLock, now, cleanupTask>>

\* one iteration of the loop of OfficeSessionManager._cleanup_stale_sessions,
\* after its sleep
CleanupPass ==
    /\ cleanupTask = "running"
    /\ Commit(CloseEach(Cur, StaleKeys(sessions, 1), TRUE))
    /\ ret' = [op |-> "cleanup", stale |-> StaleKeys(sessions, 1), err |-> "none"]
    /\ UNCHANGED <<extLock, now, cleanupTask>>

\* OfficeSessionManager.start_cleanup_task
StartCleanupTask ==
    /\ cleanupTask' = "running"
    /\ ret' = [op |-> "start_cleanup_task", err |-> "none"]
    /\ oplog' = <<>>
    /\ UNCHANGED <<sessions, sess, proj, disk, calls, bdir, manifest, extLock, now>>

\* (a task that swallows the cancellation and goes on looping)
StopCleanupTaskSwallowed ==
    /\ ret' = [op |-> "stop_cleanup_task", err |-> "none"]
    /\ oplog' = <<>>
    /\ UNCHANGED <<sessions, sess, proj, disk, calls, bdir, manifest, extLock, now,
                   cleanupTask>>

\* OfficeSessionManager.stop_cleanup_task
StopCleanupTask ==
    /\ cleanupTask' = IF cleanupTask = "running" THEN "cancelled" ELSE cleanupTask
    /\ ret' = [op |-> "stop_cleanup_task", err |-> "none"]
    /\ oplog' = <<>>
    /\ UNCHANGED <<sessions, sess, proj, disk, calls, bdir, manifest, extLock, now>>

-----------------------------------------------------------------------------
(* The environment *)

\* a step of the environment is not a handler: it leaves no call record
Env ==
    /\ oplog' = <<>>
    /\ ret' = [op |-> "env", err |-> "none"]

\* the host process of a session crashes or is killed
HostCrash(sid) ==
    /\ sess[sid].running
    /\ sess' = IF \E j \in 1..Len(sessions) : sessions[j].sid = sid
               THEN [sess EXCEPT ![sid].running = FALSE, ![sid].fileOpen = FALSE]
               ELSE [sess EXCEPT ![sid] = NullSess]
    /\ UNCHANGED <<sessions, proj, disk, calls, bdir, manifest, extLock, now, cleanupTask>>
    /\ Env

\* another application opens the file exclusively; only possible while no
\* host of this process holds it
ExternalOpen(p) ==
    /\ p \notin extLock
    /\ ~\E i \in SessionIds : sess[i].file_path = p /\ is_alive(sess[i])
    /\ extLock' = extLock \cup {p}
    /\ UNCHANGED <<sessions, sess, proj, disk, calls, bdir, manifest, now, cleanupTask>>
    /\ Env

\* the other application closes the file
ExternalClose(p) ==
    /\ p \in extLock
    /\ extLock' = extLock \ {p}
    /\ UNCHANGED <<sessions, sess, proj, disk, calls, bdir, manifest, now, cleanupTask>>
    /\ Env

\* time passes
Tick ==
    /\ now + TickStep <= MaxTime
    /\ now' = now + TickStep
    /\ UNCHANGED <<sessions, sess, proj, disk, calls, bdir, manifest, extLock, cleanupTask>>
    /\ Env

-----------------------------------------------------------------------------
(* Specification of the session manager *)

\* the workbook has a module with code and an empty one; the database has
\* one module
InitProject(p) ==
    [m \in ModuleNames |->
        IF m = "M1" THEN BodyOK
        ELSE IF AppTypeOf(p) = "Excel" THEN BodyEmpty ELSE NoModule]

Init ==
    /\ sessions = <<>>
    /\ sess = [i \in SessionIds |-> NullSess]
    /\ proj = [i \in SessionIds |-> EmptyProject]
    /\ disk = [p \in Paths |-> InitProject(p)]
    /\ bdir = NoFiles
    /\ manifest = <<>>
    /\ extLock = {}
    /\ now = 0
    /\ cleanupTask = "none"
    /\ calls = 0
    /\ oplog = <<>>
    /\ ret = [op |-> "init", err |-> "none"]

Next ==
    \/ \E raw \in RawPaths, ro \in BOOLEAN, fn \in BOOLEAN, h \in BOOLEAN, ok \in BOOLEAN :
          GetOrCreateSession(raw, ro, fn, h, ok)
    \/ \E raw \in RawPaths, save \in BOOLEAN : CloseSession(raw, save)
    \/ \E save \in BOOLEAN : CloseAllSessions(save)
    \/ CleanupPass
    \/ StartCleanupTask
    \/ StopCleanupTask
    \/ \E sid \in SessionIds : HostCrash(sid)
    \/ \E p \in Paths : ExternalOpen(p)
    \/ \E p \in Paths : ExternalClose(p)

Spec == Init /\ [][Next]_vars

-----------------------------------------------------------------------------
(* The macro runner: office_automation.py *)

Macros == {[module |-> "M1", proc |-> "Main"], [module |-> "", proc |-> "Main"]}

\* run_macro_tool: the names handed to Application.Run, in order
formats_to_try(app_type, workbook_name, m) ==
    IF app_type = "Excel"
    THEN IF m.module # ""
         THEN << m.module \o "." \o m.proc,
                 "'" \o workbook_name \o "'!" \o m.module \o "." \o m.proc,
                 m.proc >>
         ELSE << m.proc,
                 "'" \o workbook_name \o "'!" \o m.proc >>
    ELSE IF app_type = "Access"
    THEN << m.proc >>
    ELSE << m.proc,
            IF m.module # "" THEN m.module \o "." \o m.proc ELSE m.proc >>

\* AutomationSecurityContext.__enter__: read the level, then lower it; a
\* failure of either call is logged and swallowed.  The result carries
\* self.original_level (0 stands for None).
AutomationSecurityContext_enter(st0, sid, target_level, supported) ==
    Bind(st0, LAMBDA st :
        LET s  == st.sess[sid]
            ok == s.running /\ supported
        IN IF ok
           THEN [st |-> Log(Log([st EXCEPT !.sess[sid].sec = target_level],
                                Ev("get_security", sid, "", TRUE)),
                            Ev("set_security", sid, "", TRUE)),
                 original_level |-> s.sec]
           ELSE [st |-> Log(st, Ev("get_security", sid, "", FALSE)),
                 original_level |-> 0])

\* (a bracket that leaves the lowered level in place)
AutomationSecurityContext_exit_kept(st0, sid, original_level, supported) == st0

\* AutomationSecurityContext.__exit__: put the level back if one was read;
\* a failure of the call is logged and swallowed.
AutomationSecurityContext_exit(st0, sid, original_level, supported) ==
    Bind(st0, LAMBDA st :
        IF original_level # 0
        THEN LET ok == st.sess[sid].running /\ supported
             IN Log(IF ok THEN [st EXCEPT !.sess[sid].sec = original_level] ELSE st,
                    Ev("restore_security", sid, "", ok))
        ELSE st)

\* Bounds on the outcomes of Application.Run that are enumerated
MaxFormats == 3
RunFailures == {"com_error", "exception", "host_died"}

\* run_macro_tool, the loop "for format_name in formats_to_try".  The host
\* decides the outcome of each Application.Run: format okAt succeeds and the
\* earlier ones raise com_error; when none succeeds (okAt = 0) the first may
\* instead raise another exception or take the host down (fail).
RECURSIVE RunFormats(_, _, _, _, _, _)
RunFormats(st0, sid, fmts, i, okAt, fail) ==
    Bind(st0, LAMBDA st :
        IF i > Len(fmts)
        THEN [st |-> st, err |-> "ValueError", used |-> ""]
        ELSE IF ~st.sess[sid].running
        THEN RunFormats(Log(st, Ev("Run", sid, fmts[i], FALSE)),
                        sid, fmts, i + 1, okAt, fail)
        ELSE IF i = okAt
        THEN [st |-> Log(st, Ev("Run", sid, fmts[i], TRUE)),
              err |-> "none", used |-> fmts[i]]
        ELSE IF i = 1 /\ fail = "exception"
        THEN [st |-> Log(st, Ev("Run", sid, fmts[i], FALSE)),
              err |-> "Exception", used |-> ""]
        ELSE IF i = 1 /\ fail = "host_died"
        THEN RunFormats(Log([st EXCEPT !.sess[sid].running = FALSE,
                                       !.sess[sid].fileOpen = FALSE],
                            Ev("Run", sid, fmts[i], FALSE)),
                        sid, fmts, i + 1, okAt, fail)
        ELSE RunFormats(Log(st, Ev("Run", sid, fmts[i], FALSE)),
                        sid, fmts, i + 1, okAt, fail))

\* run_macro_tool once the session is at hand: the format list, the
\* security bracket around the loop, the result
run_in_session(st0, sid, m, enable_macros, supported, okAt, fail) ==
    Bind(refresh_last_accessed(st0, sid), LAMBDA st1 :
        LET s    == st1.sess[sid]
            fmts == formats_to_try(s.app_type, s.file_path, m)
        IN Bind(IF enable_macros
                THEN AutomationSecurityContext_enter(
                         st1, sid, msoAutomationSecurityLow, supported)
                ELSE [st |-> st1, original_level |-> 0], LAMBDA e :
           Bind(RunFormats(e.st, sid, fmts, 1, okAt, fail), LAMBDA r :
                [st |-> IF enable_macros
                        THEN AutomationSecurityContext_exit(
                                 r.st, sid, e.original_level, supported)
                        ELSE r.st,
                 sid |-> sid, err |-> r.err, before |-> s.sec,
                 formats |-> fmts, used |-> r.used])))

\* run_macro_tool
run_macro_tool(st0, raw, m, enable_macros, openOk, supported, okAt, fail) ==
    Bind(get_or_create_session(st0, raw, FALSE, FALSE, FALSE, openOk), LAMBDA g :
        IF g.err # "none"
        THEN [st |-> g.st, sid |-> NoSession, err |-> g.err, before |-> 0,
              formats |-> <<>>, used |-> ""]
        ELSE run_in_session(g.st, g.sid, m, enable_macros, supported, okAt, fail))

\* a call of the run_macro tool
RunMacro(raw, m, enable_macros, openOk, supported, okAt, fail) ==
    /\ calls < MaxCalls
    \* inputs that are not consulted are fixed
    /\ ~enable_macros => supported
    /\ okAt # 0 => fail = "com_error"
    /\ okAt <= Len(formats_to_try(AppTypeOf(resolve(raw)), resolve(raw), m))
    /\ ~openOk => ~(Has(sessions, resolve(raw))
                     /\ is_alive(sess[Get(sessions, resolve(raw))]))
    /\ \E r \in {run_macro_tool(Cur, raw, m, enable_macros, openOk,
                                 supported, okAt, fail)} :
          /\ r.err # "overflow"
          /\ ~openOk => \E i \in 1..Len(r.st.log) : r.st.log[i].ev = "Dispatch"
          /\ r.sid = NoSession => (supported /\ fail = "com_error")
          /\ Commit(r.st)
          /\ ret' = [op |-> "run_macro", key |-> resolve(raw), macro |-> m,
                     enable_macros |-> enable_macros, sid |-> r.sid, err |-> r.err,
                     before |-> r.before, formats |-> r.formats, used |-> r.used]
    /\ UNCHANGED <<extLock, now, cleanupTask>>

\* the user, or code inside the host, changes the host's security level
SetAutomationSecurity(sid, level) ==
    /\ is_alive(sess[sid])
    /\ sess[sid].sec # level
    /\ sess' = [sess EXCEPT ![sid].sec = level]
    /\ UNCHANGED <<sessions, proj, disk, calls, bdir, manifest, extLock, now, cleanupTask>>
    /\ Env

SecurityLevels ==
    {msoAutomationSecurityLow, msoAutomationSecurityByUI,
     msoAutomationSecurityForceDisable}

MacroPaths == {"./x.xlsm", "d.accdb"}

NextMacro ==
    \/ \E raw \in MacroPaths, m \in Macros, en \in BOOLEAN, ok \in BOOLEAN,
          sup \in BOOLEAN, okAt \in 0..MaxFormats, fail \in RunFailures :
          RunMacro(raw, m, en, ok, sup, okAt, fail)
    \/ \E sid \in SessionIds, level \in SecurityLevels : SetAutomationSecurity(sid, level)
    \/ \E raw \in MacroPaths : CloseSession(raw, FALSE)
    \/ \E sid \in SessionIds : HostCrash(sid)
    \/ \E p \in Paths : ExternalOpen(p)
    \/ \E p \in Paths : ExternalClose(p)

SpecMacro == Init /\ [][NextMacro]_vars

-----------------------------------------------------------------------------
(* The backup directory *)

\* "<stem>_<tag>_<timestamp><suffix>" inside .vba_backups
BackupName(file_path, tag, ts) == [file |-> file_path, tag |-> tag, ts |-> ts]

NoBackup == BackupName("", "none", 0)

Exists(dir, name) == name \in DOMAIN dir

\* shutil.copy2 into the directory
WriteFile(dir, name, data) ==
    [n \in (DOMAIN dir) \cup {name} |-> IF n = name THEN data ELSE dir[n]]

\* Path.unlink
RemoveFile(dir, name) == [n \in (DOMAIN dir) \ {name} |-> dir[n]]

\* some process has the container open
Held(st, file_path) ==
    \/ file_path \in extLock
    \/ \E i \in SessionIds :
          st.sess[i].file_path = file_path /\ is_alive(st.sess[i])

-----------------------------------------------------------------------------
(* The edit pipeline: tools/inject.py *)

\* inject.py _create_backup, called under "except PermissionError": the copy
\* of a container that a host holds open may be refused (backupOk)
inject_create_backup(st0, file_path, backupOk) ==
    Bind(st0, LAMBDA st :
        LET name == BackupName(file_path, "backup", now)
        IN IF backupOk
           THEN [st |-> Log([st EXCEPT !.bdir = WriteFile(@, name, st.disk[file_path])],
                            Ev("backup", NoSession, file_path, TRUE)),
                 backup_path |-> name]
           ELSE [st |-> Log(st, Ev("backup", NoSession, file_path, FALSE)),
                 backup_path |-> NoBackup])

\* "if old_code:" -- None and the empty string are both false
Truthy(old_code) ==
    /\ old_code # None
    /\ ~(Len(old_code) = 1 /\ old_code[1].kw = "Blank")

\* _verify_injection_via_session: read the module back from the live project
_verify_injection_via_session(st, sid, module_name, expected_code) ==
    LET actual == st.proj[sid][module_name]
    IN /\ actual # NoModule
       /\ Len(actual) > 0
       /\ _normalize_vba_code(actual) = _normalize_vba_code(expected_code)

\* _verify_injection: read the module back from the saved file through a
\* second, read-only host
_verify_injection(st, file_path, module_name, expected_code) ==
    LET actual == st.disk[file_path][module_name]
    IN /\ actual # NoModule
       /\ Len(actual) > 0
       /\ _normalize_vba_code(actual) = _normalize_vba_code(expected_code)

\* (a handler that reaches shutil through the module's import)
restore_on_error_global(st0, sid, backup_path, shutil_bound, copyOk) ==
    Bind(st0, LAMBDA st :
        IF backup_path # NoBackup /\ Exists(st.bdir, backup_path)
        THEN LET file_path == st.sess[sid].file_path
             IN Log(IF copyOk
                    THEN [st EXCEPT !.disk[file_path] = st.bdir[backup_path]]
                    ELSE st,
                    Ev("copy_over", sid, file_path, copyOk))
        ELSE st)

\* _inject_vba_via_session, the handler "except Exception" that ends it.  The
\* function imports shutil inside its verification branch, so the name is
\* local to the function: the handler's shutil.copy2 runs only if that import
\* was executed, and otherwise raises UnboundLocalError, which the handler's
\* own try/except logs.  Whether the copy over a container that a host holds
\* open goes through is the operating system's decision (copyOk).
restore_on_error(st0, sid, backup_path, shutil_bound, copyOk) ==
    Bind(st0, LAMBDA st :
        IF backup_path # NoBackup /\ Exists(st.bdir, backup_path)
        THEN LET file_path == st.sess[sid].file_path
             IN IF shutil_bound
                THEN Log(IF copyOk
                         THEN [st EXCEPT !.disk[file_path] = st.bdir[backup_path]]
                         ELSE st,
                         Ev("copy_over", sid, file_path, copyOk))
                ELSE Log(st, Ev("UnboundLocalError", sid, file_path, FALSE))
        ELSE st)

\* the text of a module that VBComponents.Add has just created: the
\* database host writes its default "Option Compare Database" into it
NewModuleText(app_type) ==
    IF app_type = "Access" THEN <<L("OptionCompare")>> ELSE <<>>

\* the text of an existing module after DeleteLines(1, CountOfLines) and
\* AddFromString(code)
UpdatedText(cur, code) == code

\* _inject_vba_via_session up to the end of post-validation: the module is
\* updated or added, compiled, and rolled back if the compilation fails
mutate_and_validate(st0, sid, module_name, code) ==
    Bind([st0 EXCEPT !.sess[sid].vb_cached = TRUE], LAMBDA st :
        LET cur      == st.proj[sid][module_name]
            existing == cur # NoModule
            old_code == IF existing /\ Len(cur) > 0 THEN cur ELSE None
            \* update the existing module, or add a new one
            stD == IF existing
                   THEN IF Len(cur) > 0
                        THEN Log(st, Ev("DeleteLines", sid, module_name, TRUE))
                        ELSE st
                   ELSE Log(st, Ev("Add", sid, module_name, TRUE))
            text == IF existing
                    THEN UpdatedText(cur, code)
                    ELSE NewModuleText(st.sess[sid].app_type) \o code
            stM == Log([stD EXCEPT !.proj[sid][module_name] = text],
                       Ev("AddFromString", sid, module_name, TRUE))
            \* the module now holds text
            compile_success == _compile_vba_module(text)
            stC == Log(stM, Ev("compile", sid, module_name, compile_success))
        IN [st |-> IF compile_success
                   THEN stC
                   ELSE IF Truthy(old_code)
                   THEN Log([stC EXCEPT !.proj[sid][module_name] = old_code],
                            Ev("restore_code", sid, module_name, TRUE))
                   ELSE Log([stC EXCEPT !.proj[sid][module_name] = NoModule],
                            Ev("Remove", sid, module_name, TRUE)),
            compile_success |-> compile_success,
            action |-> IF existing THEN "updated" ELSE "created"])

\* _inject_vba_via_session from the save on: Workbook.Save raises on a
\* read-only workbook, a failure of DoCmd.Save is swallowed; then the
\* post-save verification and what follows a mismatch
save_and_verify(st0, sid, module_name, code, backup_path, copyOk, action) ==
    Bind(st0, LAMBDA stC :
        LET s      == stC.sess[sid]
            saveOk == is_alive(s) /\ ~s.read_only
        IN Bind(Log(IF saveOk
                    THEN [stC EXCEPT !.disk[s.file_path] = stC.proj[sid]]
                    ELSE stC,
                    Ev("save", sid, module_name, saveOk)), LAMBDA stS :
           LET success == IF s.app_type = "Access"
                          THEN _verify_injection_via_session(stS, sid, module_name, code)
                          ELSE _verify_injection(stS, s.file_path, module_name, code)
               has_backup == backup_path # NoBackup /\ Exists(stS.bdir, backup_path)
           IN IF s.app_type # "Access" /\ ~saveOk
              THEN [st |-> restore_on_error(stS, sid, backup_path, FALSE, copyOk),
                    err |-> "com_error", msg |-> "save", action |-> action]
              ELSE IF success
              THEN [st |-> Log(stS, Ev("verify", sid, module_name, TRUE)),
                    err |-> "none", msg |-> "verified", action |-> action]
              ELSE IF has_backup /\ s.app_type # "Access"
              THEN [st |-> restore_on_error(
                              Log(Log(IF copyOk
                                      THEN [stS EXCEPT !.disk[s.file_path] =
                                                          stS.bdir[backup_path]]
                                      ELSE stS,
                                      Ev("verify", sid, module_name, FALSE)),
                                  Ev("copy_over", sid, s.file_path, copyOk)),
                              sid, backup_path, TRUE, copyOk),
                    err |-> IF copyOk THEN "ValueError" ELSE "PermissionError",
                    msg |-> IF copyOk THEN "restored" ELSE "copy_failed",
                    action |-> action]
              ELSE [st |-> restore_on_error(
                              Log(stS, Ev("verify", sid, module_name, FALSE)),
                              sid, backup_path, FALSE, copyOk),
                    err |-> "ValueError",
                    msg |-> IF has_backup THEN "backup_available" ELSE "verification",
                    action |-> action]))

\* _inject_vba_via_session
_inject_vba_via_session(st0, sid, module_name, code, backup_path, copyOk) ==
    Bind(mutate_and_validate(st0, sid, module_name, code), LAMBDA v :
        IF ~v.compile_success
        THEN [st |-> restore_on_error(v.st, sid, backup_path, FALSE, copyOk),
              err |-> "ValueError", msg |-> "validation", action |-> v.action]
        ELSE save_and_verify(v.st, sid, module_name, code, backup_path, copyOk,
                             v.action))

\* inject_vba_tool once the backup is taken: the session, the injection,
\* and the wrapping of a failure with the backup path
inject_with_backup(b, raw, module_name, code, openOk, copyOk) ==
    Bind(get_or_create_session(b.st, raw, FALSE, FALSE, FALSE, openOk), LAMBDA g :
        IF g.err # "none"
        THEN [st |-> g.st, sid |-> NoSession,
              err |-> IF b.backup_path # NoBackup /\ g.err # "overflow"
                      THEN "RuntimeError" ELSE g.err,
              inner |-> g.err, msg |-> "session",
              backup_path |-> b.backup_path, action |-> ""]
        ELSE Bind(_inject_vba_via_session(g.st, g.sid, module_name, code,
                                          b.backup_path, copyOk), LAMBDA v :
                 [st |-> v.st, sid |-> g.sid,
                  err |-> IF v.err # "none" /\ b.backup_path # NoBackup
                          THEN "RuntimeError" ELSE v.err,
                  inner |-> v.err, msg |-> v.msg,
                  backup_path |-> b.backup_path, action |-> v.action]))

\* inject_vba_tool (the container exists, the platform is Windows with
\* pywin32, the suffix is a supported one)
inject_vba_tool(st0, raw, module_name, code, create_backup, openOk, backupOk, copyOk) ==
    IF _detect_non_ascii(code)
    THEN [st |-> st0, sid |-> NoSession, err |-> "ValueError",
          inner |-> "ValueError", msg |-> "non_ascii",
          backup_path |-> NoBackup, action |-> ""]
    ELSE Bind(IF create_backup
              THEN inject_create_backup(st0, resolve(raw), backupOk)
              ELSE [st |-> st0, backup_path |-> NoBackup], LAMBDA b :
             inject_with_backup(b, raw, module_name, code, openOk, copyOk))

InjectPaths == {"./x.xlsm", "d.accdb"}

InjectBodies == {BodyOK2, BodyUnclosedIf, BodyNonAscii, BodyEmpty}

\* a call of the inject_vba tool
Inject(raw, module_name, code, create_backup, openOk, backupOk, copyOk) ==
    /\ calls < MaxCalls
    \* inputs that are not consulted are fixed
    /\ ~backupOk => (create_backup /\ Held(Cur, resolve(raw)))
    /\ ~openOk => ~(Has(sessions, resolve(raw))
                     /\ is_alive(sess[Get(sessions, resolve(raw))]))
    /\ \E r \in {inject_vba_tool(Cur, raw, module_name, code, create_backup,
                                  openOk, backupOk, copyOk)} :
          /\ r.err # "overflow"
          /\ ~openOk => \E i \in 1..Len(r.st.log) : r.st.log[i].ev = "Dispatch"
          /\ ~copyOk => \E i \in 1..Len(r.st.log) : r.st.log[i].ev = "copy_over"
          /\ Commit(r.st)
          /\ ret' = [op |-> "inject", key |-> resolve(raw), module |-> module_name,
                     code |-> code, create_backup |-> create_backup,
                     sid |-> r.sid, err |-> r.err, inner |-> r.inner, msg |-> r.msg,
                     backup_path |-> r.backup_path, action |-> r.action]
    /\ UNCHANGED <<extLock, now, cleanupTask>>

NextInject ==
    \/ \E raw \in InjectPaths, m \in ModuleNames, code \in InjectBodies,
          cb \in BOOLEAN, ok \in BOOLEAN, bok \in BOOLEAN, cok \in BOOLEAN :
          Inject(raw, m, code, cb, ok, bok, cok)
    \/ \E raw \in InjectPaths, save \in BOOLEAN : calls < MaxCalls /\ CloseSession(raw, save)

SpecInject == Init /\ [][NextInject]_vars

-----------------------------------------------------------------------------
(* The backup tool: tools/backup.py *)

\* next(b for b in manifest["backups"] if b["id"] == backup_id): the index
\* of the first entry with the id, 0 if there is none
RECURSIVE FirstWithId(_, _, _)
FirstWithId(m, backup_id, i) ==
    IF i > Len(m) THEN 0
    ELSE IF m[i].id = backup_id THEN i
    ELSE FirstWithId(m, backup_id, i + 1)

\* [b for b in manifest["backups"] if b["id"] != backup_id]
RECURSIVE WithoutId(_, _)
WithoutId(m, backup_id) ==
    IF m = <<>> THEN <<>>
    ELSE IF Head(m).id = backup_id
    THEN WithoutId(Tail(m), backup_id)
    ELSE <<Head(m)>> \o WithoutId(Tail(m), backup_id)

\* backup.py _create_backup: the id is the clock read to the second
backup_create(st0, file_path) ==
    Bind(st0, LAMBDA st :
        LET backup_id   == now
            backup_name == BackupName(file_path, "backup", backup_id)
        IN [st |-> Log([st EXCEPT
                          !.bdir = WriteFile(@, backup_name, st.disk[file_path]),
                          !.manifest = Append(@, [id |-> backup_id,
                                                  filename |-> backup_name])],
                       Ev("backup", NoSession, file_path, TRUE)),
            err |-> "none"])

\* backup.py _load_manifest: the manifest file as it stands; a directory
\* without one reads as an empty list of backups
_load_manifest(st) == st.manifest

\* reversed(backups)
RECURSIVE Reversed(_)
Reversed(m) == IF m = <<>> THEN <<>> ELSE Append(Reversed(Tail(m)), Head(m))

\* backup.py _list_backups: the entries of the manifest, most recent first
_list_backups(st) == Reversed(_load_manifest(st))

\* (a restore that overwrites the container and copies it aside afterwards)
_restore_backup_unsafe(st0, file_path, backup_id, copyOk) ==
    Bind(st0, LAMBDA st :
        LET i == FirstWithId(st.manifest, backup_id, 1)
            backup_path == st.manifest[i].filename
            safety_name == BackupName(file_path, "pre_restore", now)
        IN IF i = 0
           THEN [st |-> st, err |-> "ValueError"]
           ELSE IF ~Exists(st.bdir, backup_path)
           THEN [st |-> st, err |-> "FileNotFoundError"]
           ELSE IF copyOk
           THEN [st |-> Log(Log([st EXCEPT
                                   !.disk[file_path] = st.bdir[backup_path],
                                   !.bdir = WriteFile(@, safety_name,
                                                      st.bdir[backup_path])],
                                Ev("copy_over", NoSession, file_path, TRUE)),
                            Ev("safety_copy", NoSession, file_path, TRUE)),
                 err |-> "none"]
           ELSE [st |-> Log(st, Ev("copy_over", NoSession, file_path, FALSE)),
                 err |-> "PermissionError"])

\* backup.py _restore_backup; whether the copy over a container that a
\* host holds open goes through is the operating system's decision (copyOk)
_restore_backup(st0, file_path, backup_id, copyOk) ==
    Bind(st0, LAMBDA st :
        LET i == FirstWithId(st.manifest, backup_id, 1)
            backup_path == st.manifest[i].filename
            safety_name == BackupName(file_path, "pre_restore", now)
            st1 == Log([st EXCEPT !.bdir = WriteFile(@, safety_name, st.disk[file_path])],
                       Ev("safety_copy", NoSession, file_path, TRUE))
        IN IF i = 0
           THEN [st |-> st, err |-> "ValueError"]
           ELSE IF ~Exists(st.bdir, backup_path)
           THEN [st |-> st, err |-> "FileNotFoundError"]
           ELSE IF copyOk
           THEN [st |-> Log([st1 EXCEPT !.disk[file_path] = st.bdir[backup_path]],
                            Ev("copy_over", NoSession, file_path, TRUE)),
                 err |-> "none"]
           ELSE [st |-> Log(st1, Ev("copy_over", NoSession, file_path, FALSE)),
                 err |-> "PermissionError"])

\* backup.py _delete_backup
_delete_backup(st0, file_path, backup_id) ==
    Bind(st0, LAMBDA st :
        LET i == FirstWithId(st.manifest, backup_id, 1)
            backup_path == st.manifest[i].filename
        IN IF i = 0
           THEN [st |-> st, err |-> "ValueError"]
           ELSE [st |-> Log([st EXCEPT
                               !.bdir = IF Exists(@, backup_path)
                                        THEN RemoveFile(@, backup_path) ELSE @,
                               !.manifest = WithoutId(@, backup_id)],
                            Ev("unlink", NoSession, file_path,
                               Exists(st.bdir, backup_path))),
                 err |-> "none"])

\* the ids a caller can name: the readings of the clock
BackupIds == {t \in 0..MaxTime : t % TickStep = 0}

\* a call of the backup tool, by action
BackupCreate(file_path) ==
    /\ calls < MaxCalls
    /\ \E r \in {backup_create(Cur, file_path)} :
          /\ Commit(r.st)
          /\ ret' = [op |-> "backup_create", key |-> file_path, id |-> now,
                     err |-> r.err]
    /\ UNCHANGED <<extLock, now, cleanupTask>>

BackupRestore(file_path, backup_id, copyOk) ==
    /\ calls < MaxCalls
    /\ ~copyOk => Held(Cur, file_path)
    /\ \E r \in {_restore_backup(Cur, file_path, backup_id, copyOk)} :
          /\ ~copyOk => \E i \in 1..Len(r.st.log) : r.st.log[i].ev = "copy_over"
          /\ Commit(r.st)
          /\ ret' = [op |-> "backup_restore", key |-> file_path, id |-> backup_id,
                     err |-> r.err]
    /\ UNCHANGED <<extLock, now, cleanupTask>>

BackupDelete(file_path, backup_id) ==
    /\ calls < MaxCalls
    /\ \E r \in {_delete_backup(Cur, file_path, backup_id)} :
          /\ Commit(r.st)
          /\ ret' = [op |-> "backup_delete", key |-> file_path, id |-> backup_id,
                     err |-> r.err]
    /\ UNCHANGED <<extLock, now, cleanupTask>>

\* a call of the backup tool with action "list"
BackupList(file_path) ==
    /\ calls < MaxCalls
    /\ Commit(Cur)
    /\ ret' = [op |-> "backup_list", key |-> file_path,
               listed |-> _list_backups(Cur), err |-> "none"]
    /\ UNCHANGED <<extLock, now, cleanupTask>>

\* the server process dies inside backup.py _create_backup, after
\* shutil.copy2 and before _save_manifest.  The next process starts with an
\* empty registry and no eviction task; the hosts that the dead process drove
\* go away with their last client.
BackupCreateCrash(file_path) ==
    /\ calls < MaxCalls
    /\ bdir' = WriteFile(bdir, BackupName(file_path, "backup", now), disk[file_path])
    /\ sessions' = <<>>
    /\ sess' = [i \in SessionIds |-> NullSess]
    /\ proj' = [i \in SessionIds |-> EmptyProject]
    /\ cleanupTask' = "none"
    /\ calls' = calls + 1
    /\ oplog' = <<Ev("backup", NoSession, file_path, TRUE)>>
    /\ ret' = [op |-> "backup_create_crash", key |-> file_path,
               name |-> BackupName(file_path, "backup", now), err |-> "crash"]
    /\ UNCHANGED <<disk, manifest, extLock, now>>

\* somebody removes a file from the backup directory
BackupFileLost(name) ==
    /\ Exists(bdir, name)
    /\ bdir' = RemoveFile(bdir, name)
    /\ UNCHANGED <<sessions, sess, proj, disk, manifest, extLock, now, cleanupTask, calls>>
    /\ Env

NextBackup ==
    \/ \E p \in Paths : BackupCreate(p)
    \/ \E p \in Paths, id \in BackupIds, cok \in BOOLEAN : BackupRestore(p, id, cok)
    \/ \E p \in Paths, id \in BackupIds : BackupDelete(p, id)
    \/ \E name \in DOMAIN bdir : BackupFileLost(name)
    \/ \E p \in Paths : BackupList(p)
    \/ \E p \in Paths : BackupCreateCrash(p)
    \/ \E cb \in BOOLEAN : Inject("./x.xlsm", "M1", BodyOK2, cb, TRUE, TRUE, TRUE)
    \/ \E p \in Paths : calls < MaxCalls /\ GetOrCreateSession(p, FALSE, FALSE, FALSE, TRUE)
    \/ Tick

SpecBackup == Init /\ [][NextBackup]_vars

-----------------------------------------------------------------------------
(* The life of a session: server.py main and the handlers that open, edit  *)
(* and close                                                               *)

\* server.py main, the "finally" that ends the server: stop the eviction
\* task, then close every session with save=True
Shutdown ==
    /\ cleanupTask' = IF cleanupTask = "running" THEN "cancelled" ELSE cleanupTask
    /\ Commit(CloseEach(Cur, Keys(sessions), TRUE))
    /\ ret' = [op |-> "shutdown", save |-> TRUE, err |-> "none"]
    /\ UNCHANGED <<extLock, now>>

LifecyclePaths == {"x.xlsm", "d.accdb"}

LifecycleBodies == {BodyOK2, BodyUnclosedIf}

NextLifecycle ==
    \/ \E raw \in LifecyclePaths, ro \in BOOLEAN, fn \in BOOLEAN :
          calls < MaxCalls /\ GetOrCreateSession(raw, ro, fn, FALSE, TRUE)
    \/ \E raw \in LifecyclePaths, code \in LifecycleBodies :
          Inject(raw, "M2", code, FALSE, TRUE, TRUE, TRUE)
    \/ \E raw \in LifecyclePaths, save \in BOOLEAN : CloseSession(raw, save)
    \/ \E save \in BOOLEAN : CloseAllSessions(save)
    \/ Shutdown
    \/ CleanupPass
    \/ StartCleanupTask
    \/ StopCleanupTask
    \/ \E sid \in SessionIds : HostCrash(sid)
    \/ Tick

SpecLifecycle == Init /\ [][NextLifecycle]_vars

\* The eviction task at work.  asyncio runs the task whenever its sleep is
\* over and no handler is running, so a pass that has something to close is
\* not put off for ever.
NextEvict ==
    \/ \E raw \in LifecyclePaths, ro \in BOOLEAN :
          calls < MaxCalls /\ GetOrCreateSession(raw, ro, FALSE, FALSE, TRUE)
    \/ \E raw \in LifecyclePaths, save \in BOOLEAN :
          calls < MaxCalls /\ CloseSession(raw, save)
    \/ CleanupPass
    \/ StartCleanupTask
    \/ StopCleanupTask
    \/ \E sid \in SessionIds : HostCrash(sid)
    \/ Tick

SpecEvict == Init /\ [][NextEvict]_vars /\ WF_vars(CleanupPass)

-----------------------------------------------------------------------------
(* Properties of the session registry *)

LogHas(e) == \E i \in 1..Len(oplog) : oplog[i].ev = e

\* C1: at every moment, for every absolute path p, the registry holds at
\* most one session whose path is p.
RegistryUniqueness ==
    \A p \in Paths :
        Cardinality({i \in 1..Len(sessions) : sess[sessions[i].sid].file_path = p}) <= 1

\* a forced re-open through the other spelling of the path, with both files registered
WitnessRegistryUniqueness ==
    /\ ret.op = "get_or_create_session"
    /\ ret.raw = "./x.xlsm" /\ ret.force_new /\ ret.err = "none"
    /\ LogHas("Dispatch")
    /\ Len(sessions) = 2

\* C2: when get_or_create_session probes the registered entry and finds it
\* dead, no save is attempted on it, and a host is launched for the
\* replacement only after the dead entry was closed, quit and deleted.
DeadEntryClosedFirst ==
    ret.op = "get_or_create_session" =>
        \A i \in 1..Len(oplog) :
            (oplog[i].ev = "is_alive" /\ ~oplog[i].flag) =>
                /\ ~\E k \in 1..Len(oplog) : oplog[k].ev = "save"
                /\ \A j \in 1..Len(oplog) :
                      oplog[j].ev = "Dispatch" =>
                          /\ i < j
                          /\ \E c \in (i + 1)..(j - 1) :
                                oplog[c].ev = "close" /\ oplog[c].sid = oplog[i].sid
                          /\ \E q \in (i + 1)..(j - 1) :
                                oplog[q].ev = "quit" /\ oplog[q].sid = oplog[i].sid
                          /\ \E d \in (i + 1)..(j - 1) :
                                oplog[d].ev = "del" /\ oplog[d].key = ret.key

\* a dead entry was found and a replacement session was created and registered
WitnessDeadEntryClosedFirst ==
    /\ ret.op = "get_or_create_session" /\ ret.err = "none"
    /\ \E i, j \in 1..Len(oplog) :
          /\ i < j
          /\ oplog[i].ev = "is_alive" /\ ~oplog[i].flag
          /\ oplog[j].ev = "set"

\* C3: a call whose lock probe fails while the registry holds no live
\* session for the path raises PermissionError and creates no session; the
\* registry then holds no entry for the path, or the dead one it held.
LockedStep ==
    (/\ ret'.op = "get_or_create_session"
     /\ \E i \in 1..Len(oplog') :
           oplog'[i].ev = "check_file_lock" /\ oplog'[i].flag
     /\ (~Has(sessions, ret'.key) \/ ~is_alive(sess[Get(sessions, ret'.key)])))
    => (/\ ret'.err = "PermissionError"
        /\ ret'.sid = NoSession
        /\ \A i \in 1..Len(oplog') : oplog'[i].ev # "Dispatch"
        /\ \A i \in SessionIds : sess'[i].running => sess[i].running
        /\ (Has(sessions', ret'.key) =>
               Get(sessions', ret'.key) = Get(sessions, ret'.key)))

LockedFailsWithoutSession == [][LockedStep]_vars

\* the cached session had gone dead, was discarded, and the file turned out
\* to be held by another application
WitnessLockedFailsWithoutSession ==
    /\ ret.op = "get_or_create_session" /\ ret.err = "PermissionError"
    /\ \E i, j \in 1..Len(oplog) :
          /\ i < j
          /\ oplog[i].ev = "is_alive" /\ ~oplog[i].flag
          /\ oplog[j].ev = "check_file_lock" /\ oplog[j].flag
    /\ ~Has(sessions, ret.key)

-----------------------------------------------------------------------------
(* Properties of the macro runner *)

\* C4: after every run_macro call, each host that was running before the
\* call and is running after it has the automation-security level it had
\* immediately before the call, and a host the call launched has the level it
\* was launched with -- whether the call returned normally or raised.
SecurityBracketStep ==
    ret'.op = "run_macro" =>
        /\ \A i \in SessionIds :
              (sess[i].running /\ sess'[i].running) => sess'[i].sec = sess[i].sec
        /\ (ret'.sid # NoSession /\ sess'[ret'.sid].running) =>
               sess'[ret'.sid].sec = ret'.before

SecurityBracket == [][SecurityBracketStep]_vars

\* the level was lowered from a stricter one, the macro raised, and the
\* stricter level is back on the running host
WitnessSecurityBracket ==
    /\ ret.op = "run_macro" /\ ret.enable_macros
    /\ ret.err \in {"Exception", "ValueError"}
    /\ ret.before = msoAutomationSecurityForceDisable
    /\ \E i \in 1..Len(oplog) : oplog[i].ev = "set_security" /\ oplog[i].flag
    /\ sess[ret.sid].running
    /\ sess[ret.sid].sec = msoAutomationSecurityForceDisable

-----------------------------------------------------------------------------
(* Properties of the edit pipeline *)

\* the project the call found: that of the live registered session, or the
\* saved one that a new session loads
PreProject(key) ==
    IF Has(sessions, key) /\ is_alive(sess[Get(sessions, key)])
    THEN proj[Get(sessions, key)]
    ELSE disk[key]

NextLogHas(e, flag) ==
    \E i \in 1..Len(oplog') : oplog'[i].ev = e /\ oplog'[i].flag = flag

\* C5: if post-validation of the mutated module fails, the call raises the
\* validation error with every module that existed before the call holding
\* its prior body; only a module the call itself created is removed.
RollbackStep ==
    (ret'.op = "inject" /\ NextLogHas("compile", FALSE)) =>
        /\ ret'.inner = "ValueError"
        /\ \A m \in ModuleNames :
              PreProject(ret'.key)[m] # NoModule =>
                  proj'[ret'.sid][m] = PreProject(ret'.key)[m]

RollbackOnValidationFailure == [][RollbackStep]_vars

\* C6: a body whose blocks are unbalanced is rejected in pre-validation:
\* no backup is created, no session is obtained, no module is touched and
\* the container file stays as it was.
UnbalancedStep ==
    (/\ ret'.op = "inject"
     /\ \A i \in 1..Len(ret'.code) : ret'.code[i].cp <= 127
     /\ ~_check_vba_syntax(ret'.code))
    => (/\ ret'.err # "none"
        /\ oplog' = <<>>
        /\ UNCHANGED <<sessions, sess, proj, disk, bdir, manifest>>)

UnbalancedRejectedInPreValidation == [][UnbalancedStep]_vars

\* C7: a body with a character of codepoint above 127 is rejected with a
\* validation error before any backup is created, any session is obtained
\* or any module is changed.
NonAsciiStep ==
    (/\ ret'.op = "inject"
     /\ \E i \in 1..Len(ret'.code) : ret'.code[i].cp > 127)
    => (/\ ret'.err = "ValueError"
        /\ oplog' = <<>>
        /\ UNCHANGED <<sessions, sess, proj, disk, bdir, manifest>>)

NonAsciiRejectedFirst == [][NonAsciiStep]_vars

\* a non-ASCII body was refused although a backup was requested and a live
\* session for the container was at hand
WitnessNonAsciiRejectedFirst ==
    /\ ret.op = "inject" /\ ret.msg = "non_ascii" /\ ret.err = "ValueError"
    /\ ret.create_backup
    /\ Has(sessions, ret.key) /\ is_alive(sess[Get(sessions, ret.key)])

\* C8: once a call has begun to mutate a module it ends either committed
\* (the new body is in the live project, saved and verified, compared as
\* the verification compares) or rolled back
\* (the live project is as it was before the call).
CommitOrRollbackStep ==
    (ret'.op = "inject" /\ NextLogHas("AddFromString", TRUE)) =>
        \/ /\ ret'.err = "none"
            /\ NextLogHas("verify", TRUE)
            /\ _normalize_vba_code(proj'[ret'.sid][ret'.module])
                  = _normalize_vba_code(ret'.code)
            /\ _normalize_vba_code(disk'[ret'.key][ret'.module])
                  = _normalize_vba_code(ret'.code)
        \/ /\ ret'.err # "none"
            /\ proj'[ret'.sid] = PreProject(ret'.key)

CommittedOrRolledBack == [][CommitOrRollbackStep]_vars

\* C9: when post-save verification finds a mismatch and the call holds a
\* backup, the container file is overwritten from the backup only for a
\* session that is not a database session; for a database session the file
\* is left as saved and the error reports the backup path.
MismatchStep ==
    (/\ ret'.op = "inject"
     /\ NextLogHas("verify", FALSE)
     /\ ret'.backup_path # NoBackup)
    => LET access == sess'[ret'.sid].app_type = "Access"
       IN /\ NextLogHas("copy_over", TRUE) =>
                /\ ~access
                /\ disk'[ret'.key] = bdir'[ret'.backup_path]
                /\ ret'.msg = "restored"
          /\ access =>
                /\ disk'[ret'.key] = proj'[ret'.sid]
                /\ ret'.msg = "backup_available"
                /\ ret'.err = "RuntimeError"

-----------------------------------------------------------------------------
(* Properties of the backup tool *)

\* C10: for every manifest entry that lists a backup of the container under
\* the id being restored, either the backup file the entry names exists or
\* the restore fails with FileNotFoundError; and a restore that reports
\* success has copied that entry's backup over the container.
ManifestConsistencyStep ==
    ret'.op = "backup_restore" =>
        \A i \in 1..Len(manifest) :
            (manifest[i].id = ret'.id /\ manifest[i].filename.file = ret'.key) =>
                /\ Exists(bdir, manifest[i].filename)
                      \/ ret'.err = "FileNotFoundError"
                /\ ret'.err = "none" =>
                      /\ Exists(bdir, manifest[i].filename)
                      /\ disk'[ret'.key] = bdir[manifest[i].filename]

ManifestConsistency == [][ManifestConsistencyStep]_vars

\* C11: when the server died in a backup creation after the copy and
\* before the manifest update, the next read of the manifest lists the copied
\* backup file and the manifest names it from then on.
CrashRecoveryStep ==
    (ret.op = "backup_create_crash" /\ ret'.op = "backup_list") =>
        /\ \E i \in 1..Len(ret'.listed) : ret'.listed[i].filename = ret.name
        /\ \E i \in 1..Len(manifest') : manifest'[i].filename = ret.name

CrashRecoveredOnRead == [][CrashRecoveryStep]_vars

\* C12: a restore that reports success has first copied the container as it
\* was into the backup directory and then overwritten it, and the container
\* then holds the content of a backup that the manifest lists under the id.
RestoreStep ==
    (ret'.op = "backup_restore" /\ ret'.err = "none") =>
        LET safety_name == BackupName(ret'.key, "pre_restore", now)
        IN /\ Exists(bdir', safety_name)
           /\ bdir'[safety_name] = disk[ret'.key]
           /\ \E i, j \in 1..Len(oplog') :
                 /\ i < j
                 /\ oplog'[i].ev = "safety_copy"
                 /\ oplog'[j].ev = "copy_over" /\ oplog'[j].flag
           /\ \E i \in 1..Len(manifest) :
                 /\ manifest[i].id = ret'.id
                 /\ Exists(bdir, manifest[i].filename)
                 /\ disk'[ret'.key] = bdir[manifest[i].filename]

RestoreSafetyCopyThenOverwrite == [][RestoreStep]_vars

\* the workbook was backed up, edited and restored: it is back at the backed
\* up content and the edited content sits in the safety copy
WitnessRestoreSafetyCopyThenOverwrite ==
    /\ ret.op = "backup_restore" /\ ret.err = "none"
    /\ ret.key = "x.xlsm"
    /\ disk["x.xlsm"] = InitProject("x.xlsm")
    /\ \E n \in DOMAIN bdir :
          /\ n.tag = "pre_restore" /\ n.file = "x.xlsm"
          /\ bdir[n]["M1"] = BodyOK2

\* C13: an inject_vba call that succeeds on a writable container and took a
\* backup has added to the manifest an entry that names the backup file, so
\* that the backup is listed and can be restored by its id.
InjectBackupStep ==
    (/\ ret'.op = "inject" /\ ret'.err = "none"
     /\ ret'.create_backup /\ ret'.backup_path # NoBackup
     /\ ~sess'[ret'.sid].read_only)
    => /\ Exists(bdir', ret'.backup_path)
       /\ \E i \in 1..Len(manifest') :
             /\ manifest'[i].filename = ret'.backup_path
             /\ manifest'[i].id = ret'.backup_path.ts

InjectBackupInManifest == [][InjectBackupStep]_vars

-----------------------------------------------------------------------------
(* Properties of closing and eviction *)

\* C14: every close of a session makes its calls in this order: the save
\* (if there is one), the close of the file, the quit of the host, the
\* release of the project handle (if one was taken), of the file handle and
\* of the host reference, and then the uninitialisation of the platform
\* binding -- whether or not the save, the close or the quit succeeded.
CloseOrderStep ==
    /\ \A c \in 1..Len(oplog') :
          oplog'[c].ev = "close" =>
              LET sid == oplog'[c].sid
                  vb  == sess[sid].vb_cached
                  r   == IF vb THEN c + 3 ELSE c + 2
              IN /\ r + 2 <= Len(oplog')
                 /\ oplog'[c + 1].ev = "quit"
                 /\ vb => oplog'[c + 2].ev = "release_vb"
                 /\ oplog'[r].ev = "release_file"
                 /\ oplog'[r + 1].ev = "release_app"
                 /\ oplog'[r + 2].ev = "CoUninitialize"
                 /\ \A k \in (c + 1)..(r + 2) : oplog'[k].sid = sid
    /\ \A k \in 1..Len(oplog') :
          (oplog'[k].ev = "save" /\ oplog'[k].key = "") =>
              /\ k < Len(oplog')
              /\ oplog'[k + 1].ev = "close" /\ oplog'[k + 1].sid = oplog'[k].sid
    /\ \A k \in 1..Len(oplog') :
          oplog'[k].ev \in {"quit", "release_vb", "release_file", "release_app"} =>
              \E c \in 1..k : oplog'[c].ev = "close" /\ oplog'[c].sid = oplog'[k].sid

CloseOrder == [][CloseOrderStep]_vars

\* a session whose project handle was taken and whose host had died was
\* closed with save: save, close and quit failed and the three releases and
\* the uninitialisation followed
WitnessCloseOrder ==
    /\ ret.op = "close_session" /\ ret.save
    /\ Len(oplog) = 8
    /\ oplog[1].ev = "save" /\ ~oplog[1].flag
    /\ oplog[2].ev = "close" /\ ~oplog[2].flag
    /\ oplog[3].ev = "quit" /\ ~oplog[3].flag
    /\ oplog[4].ev = "release_vb"
    /\ oplog[7].ev = "CoUninitialize"
    /\ oplog[8].ev = "del"

\* whether the handler asked for a save: eviction and shutdown always do
SaveRequested(r) == IF r.op \in {"cleanup", "shutdown"} THEN TRUE ELSE r.save

\* C15: when close_session, close_all_sessions, an eviction pass or the
\* shutdown closes a session whose host answers, the session's project is
\* written to its file if saving was requested and the session is not
\* read-only, and otherwise no save is made and the file stays as it was;
\* eviction and shutdown request the save.
SaveOnCloseStep ==
    ret'.op \in {"close_session", "close_all_sessions", "cleanup", "shutdown"} =>
        \A c \in 1..Len(oplog') :
            (oplog'[c].ev = "close" /\ is_alive(sess[oplog'[c].sid])) =>
                LET sid == oplog'[c].sid
                    s   == sess[sid]
                IN IF SaveRequested(ret') /\ ~s.read_only
                   THEN /\ disk'[s.file_path] = proj[sid]
                        /\ s.app_type = "Excel" =>
                               /\ c > 1
                               /\ oplog'[c - 1].ev = "save"
                               /\ oplog'[c - 1].sid = sid /\ oplog'[c - 1].flag
                   ELSE /\ disk'[s.file_path] = disk[s.file_path]
                        /\ ~(c > 1 /\ oplog'[c - 1].ev = "save")

SavedIffRequestedAndWritable == [][SaveOnCloseStep]_vars

\* an eviction pass closed an idle workbook session whose live project
\* differed from the file, and the file now holds the live project
WitnessSavedIffRequestedAndWritable ==
    /\ ret.op = "cleanup" /\ Len(ret.stale) > 0
    /\ \E i \in 1..Len(oplog) : oplog[i].ev = "save" /\ oplog[i].flag
    /\ disk["x.xlsm"]["M2"] = NoModule

\* the session registered under p is due for eviction: idle for longer than
\* the timeout, or failing the liveness probe
Due(p) ==
    /\ Has(sessions, p)
    /\ LET s == sess[Get(sessions, p)]
       IN now - s.last_accessed > SESSION_TIMEOUT \/ ~is_alive(s)

\* C16: every eviction pass closes and removes each registered session that
\* is due and leaves the others registered; and while the eviction task is
\* started and not cancelled, a session that is due does not stay registered
\* for ever.
EvictStep ==
    ret'.op = "cleanup" =>
        \A p \in Paths :
            Has(sessions, p) =>
                LET sid == Get(sessions, p)
                IN IF Due(p)
                   THEN /\ ~Has(sessions', p)
                        /\ ~sess'[sid].running /\ ~sess'[sid].fileOpen
                        /\ \E c \in 1..Len(oplog') :
                              oplog'[c].ev = "close" /\ oplog'[c].sid = sid
                   ELSE /\ Has(sessions', p) /\ Get(sessions', p) = sid
                        /\ sess'[sid] = sess[sid]

EvictionClosesDueSessions ==
    /\ [][EvictStep]_vars
    /\ \A p \in Paths :
          (cleanupTask = "running" /\ Due(p)) ~> ~(cleanupTask = "running" /\ Due(p))

\* a pass evicted a session that had been idle for longer than the timeout
\* and one whose host had died, in one go
WitnessEvictionClosesDueSessions ==
    /\ ret.op = "cleanup" /\ Len(ret.stale) = 2
    /\ sessions = <<>>
    /\ \E i \in 1..Len(oplog) : oplog[i].ev = "close" /\ oplog[i].flag
    /\ \E i \in 1..Len(oplog) : oplog[i].ev = "close" /\ ~oplog[i].flag

\* C17: when close_all_sessions returns -- called directly or by the
\* shutdown, which stops the eviction task first -- the registry is empty and
\* every session that was registered has had the close of its file and the
\* quit of its host called, and no host of a registered session is left.
CloseAllStep ==
    ret'.op \in {"close_all_sessions", "shutdown"} =>
        /\ sessions' = <<>>
        /\ ret'.op = "shutdown" => cleanupTask' # "running"
        /\ \A j \in 1..Len(sessions) :
              LET sid == sessions[j].sid
              IN /\ \E c, q \in 1..Len(oplog') :
                       /\ c < q
                       /\ oplog'[c].ev = "close" /\ oplog'[c].sid = sid
                       /\ oplog'[q].ev = "quit" /\ oplog'[q].sid = sid
                 /\ ~sess'[sid].running /\ ~sess'[sid].fileOpen

CloseAllEmptiesRegistry == [][CloseAllStep]_vars

\* the shutdown found the eviction task running and two sessions
\* registered, one of them with a dead host
WitnessCloseAllEmptiesRegistry ==
    /\ ret.op = "shutdown"
    /\ cleanupTask = "cancelled"
    /\ sessions = <<>>
    /\ \E i, j \in 1..Len(oplog) :
          /\ oplog[i].ev = "quit" /\ oplog[i].flag
          /\ oplog[j].ev = "quit" /\ ~oplog[j].flag
    /\ \A i \in SessionIds : ~sess[i].running

\* C18: when stop_cleanup_task returns the eviction task is not running any
\* more, and a task that is not running makes no eviction pass; the task is
\* cancelled where it waits (in its sleep: no handler keeps the lock across
\* a suspension, so the task never waits for the lock).
StopStep ==
    /\ ret'.op = "stop_cleanup_task" => cleanupTask' # "running"
    /\ cleanupTask # "running" => ret'.op # "cleanup"

ForceNewStep ==
    (/\ ret'.op = "get_or_create_session" /\ ret'.force_new
     /\ Has(sessions, ret'.key)
     /\ ret'.err = "none")
    => \E c, n \in 1..Len(oplog') :
          /\ c < n
          /\ oplog'[c].ev = "close" /\ oplog'[c].sid = Get(sessions, ret'.key)
          /\ oplog'[n].ev = "set" /\ oplog'[n].key = ret'.key

ForceNewClosesExisting == [][ForceNewStep]_vars

-----------------------------------------------------------------------------
(* Algebraic properties of the edit pipeline *)

\* two calls of inject_vba in succession with the same container, module
\* name and body, the first of which returned normally
Repeated ==
    /\ ret.op = "inject" /\ ret.err = "none"
    /\ ret'.op = "inject"
    /\ ret'.key = ret.key /\ ret'.module = ret.module /\ ret'.code = ret.code

\* a project up to what _normalize_vba_code removes
NormalizedProject(pr) == [m \in ModuleNames |-> _normalize_vba_code(pr[m])]

\* C20: the second of two identical calls returns normally, reports
\* "updated" and leaves the live project and the container file as the first
\* call left them, up to the normalisation that the verification applies
\* (the header line that the database host writes into a new module is gone
\* after the second call); the modules that were not named are unchanged.
IdempotentStep ==
    Repeated =>
        /\ ret'.err = "none" /\ ret'.action = "updated"
        /\ ret'.sid = ret.sid
        /\ NormalizedProject(proj'[ret'.sid]) = NormalizedProject(proj[ret.sid])
        /\ NormalizedProject(disk'[ret'.key]) = NormalizedProject(disk[ret.key])
        /\ \A m \in ModuleNames \ {ret'.module} :
              /\ proj'[ret'.sid][m] = proj[ret.sid][m]
              /\ disk'[ret'.key][m] = disk[ret.key][m]

InjectIdempotent == [][IdempotentStep]_vars

-----------------------------------------------------------------------------
(* Properties of the macro candidates and of session reuse *)

IsRun(e) == e.ev = "Run"

\* C21: for a spreadsheet session and a reference MODULE.NAME, the names
\* handed to Application.Run are the four candidates in their order, up to
\* the first that succeeds; the call reports "not found" only after all four
\* have failed.
CandidatesStep ==
    (/\ ret'.op = "run_macro" /\ ret'.sid # NoSession
     /\ AppTypeOf(ret'.key) = "Excel" /\ ret'.macro.module # ""
     /\ ret'.err \in {"none", "ValueError"})
    => LET runs == SelectSeq(oplog', IsRun)
           m    == ret'.macro
           cand == << m.module \o "." \o m.proc,
                      "'" \o ret'.key \o "'!" \o m.module \o "." \o m.proc,
                      m.proc,
                      "'" \o ret'.key \o "'!" \o m.proc >>
       IN /\ Len(runs) <= Len(cand)
          /\ \A i \in 1..Len(runs) :
                /\ runs[i].key = cand[i]
                /\ runs[i].flag <=> (i = Len(runs) /\ ret'.err = "none")
          /\ ret'.err = "none" => Len(runs) >= 1
          /\ ret'.err = "ValueError" => Len(runs) = Len(cand)

MacroCandidatesInOrder == [][CandidatesStep]_vars

\* C22: a call without force_new that finds the registered session for the
\* path alive returns that session, sets its last-accessed time to the
\* present, launches no host and leaves the registry as it is.
ReuseStep ==
    (/\ ret'.op = "get_or_create_session" /\ ~ret'.force_new
     /\ Has(sessions, ret'.key)
     /\ is_alive(sess[Get(sessions, ret'.key)]))
    => LET old == Get(sessions, ret'.key)
       IN /\ ret'.err = "none" /\ ret'.sid = old
          /\ sess'[old] = [sess[old] EXCEPT !.last_accessed = now]
          /\ sessions' = sessions
          /\ \A i \in 1..Len(oplog') :
                oplog'[i].ev \notin {"Dispatch", "CoInitialize", "Open", "close", "quit"}
          /\ \A i \in SessionIds \ {old} : sess'[i] = sess[i]

LiveEntryReused == [][ReuseStep]_vars

\* a session was opened, time passed, and a second call for the same path
\* got the same session with its timestamp brought forward
WitnessLiveEntryReused ==
    /\ ret.op = "get_or_create_session" /\ ret.err = "none"
    /\ ~LogHas("Dispatch")
    /\ now > 0
    /\ sess[ret.sid].last_accessed = now
    /\ Has(sessions, ret.key) /\ Get(sessions, ret.key) = ret.sid

-----------------------------------------------------------------------------
(* The module parser (vba_parser.py).  A module's code is the sequence of its
   lines, each terminated by a newline, so that code.splitlines() is the
   sequence itself. *)

MaxLines == 4

\* the line texts the inputs are built from
LineTexts ==
    {"Sub P()", "Function P()", "Property Get P()",
     "End Sub", "End Function", "End Property", "", "x = 1"}

Codes == UNION {[1..n -> LineTexts] : n \in 0..MaxLines}

\* SUB_PATTERN, FUNCTION_PATTERN, PROPERTY_PATTERN at the head of a line
Opens(line, statement_type) ==
    \/ statement_type = "Sub" /\ line = "Sub P()"
    \/ statement_type = "Function" /\ line = "Function P()"
    \/ statement_type = "Property" /\ line = "Property Get P()"

\* end_pattern: ^\s*End\s+<statement_type>\b
end_pattern(line, statement_type) ==
    \/ statement_type = "Sub" /\ line = "End Sub"
    \/ statement_type = "Function" /\ line = "End Function"
    \/ statement_type = "Property" /\ line = "End Property"

\* the leading \s* of the patterns also consumes newlines, so a match starts
\* at the first of the blank lines that run up to the opener:
\* line_num = code[:match.start()].count('\n') + 1
line_num(lines, i) ==
    CHOOSE j \in 1..i :
        /\ \A k \in j..(i - 1) : lines[k] = ""
        /\ \A h \in 1..(j - 1) : \E k \in h..(i - 1) : lines[k] # ""

_find_end_statement(lines, start_line, statement_type) ==
    LET ends == {i \in start_line..Len(lines) :
                    end_pattern(lines[i], statement_type)}
    IN IF ends # {} THEN CHOOSE i \in ends : \A j \in ends : i <= j
       ELSE Len(lines)

TypeName(statement_type) ==
    IF statement_type = "Property" THEN "Property Get" ELSE statement_type

\* one loop of _extract_procedures: the matches of one pattern, in order
RECURSIVE ProceduresFrom(_, _, _)
ProceduresFrom(lines, statement_type, i) ==
    IF i > Len(lines) THEN <<>>
    ELSE IF Opens(lines[i], statement_type)
    THEN LET start == line_num(lines, i)
         IN << [name |-> "P", type |-> TypeName(statement_type),
                visibility |-> "Public", line_start |-> start,
                line_end |-> _find_end_statement(lines, start, statement_type)] >>
            \o ProceduresFrom(lines, statement_type, i + 1)
    ELSE ProceduresFrom(lines, statement_type, i + 1)

_extract_procedures(lines) ==
    ProceduresFrom(lines, "Sub", 1)
        \o ProceduresFrom(lines, "Function", 1)
        \o ProceduresFrom(lines, "Property", 1)

\* parse_module on the module that was handed in
ParseModule ==
    /\ ret.op = "module"
    /\ ret' = [op |-> "parse_module", err |-> "none", code |-> ret.code,
               procedures |-> _extract_procedures(ret.code)]
    /\ UNCHANGED <<sessions, sess, proj, disk, bdir, manifest, extLock, now,
                   cleanupTask, calls, oplog>>

InitParser ==
    /\ sessions = <<>>
    /\ sess = [i \in SessionIds |-> NullSess]
    /\ proj = [i \in SessionIds |-> EmptyProject]
    /\ disk = [p \in Paths |-> InitProject(p)]
    /\ bdir = NoFiles
    /\ manifest = <<>>
    /\ extLock = {}
    /\ now = 0
    /\ cleanupTask = "none"
    /\ calls = 0
    /\ oplog = <<>>
    /\ ret \in {[op |-> "module", err |-> "none", code |-> c] : c \in Codes}

NextParser == ParseModule

SpecParser == InitParser /\ [][NextParser]_vars

\* C23: in every parsed module each procedure ends at or after the line it
\* starts on, and no line belongs to two distinct procedures.
ProcedureSpansDisjoint ==
    ret.op = "parse_module"
    => LET ps == ret.procedures
       IN /\ \A i \in 1..Len(ps) : ps[i].line_end >= ps[i].line_start
          /\ \A i, j \in 1..Len(ps) :
                i # j => \/ ps[i].line_end < ps[j].line_start
                         \/ ps[j].line_end < ps[i].line_start

-----------------------------------------------------------------------------
(* The registry and the session-manager lock *)

\* OfficeSessionManager.list_sessions: one entry per registered session,
\* in registry order
ListSessions ==
    /\ calls < MaxCalls
    /\ Commit(Cur)
    /\ ret' = [op |-> "list_sessions", err |-> "none",
               listed |-> [i \in 1..Len(sessions) |->
                   LET s == sess[sessions[i].sid]
                   IN [file_path |-> s.file_path, app_type |-> s.app_type,
                       read_only |-> s.read_only,
                       last_accessed_seconds |-> now - s.last_accessed]]]
    /\ UNCHANGED <<extLock, now, cleanupTask>>

\* the operations whose body runs inside "async with self._lock"
UnderLock(op) ==
    op \in {"get_or_create_session", "close_session", "close_all_sessions",
            "cleanup", "shutdown"}

\* the operations whose body reads self._sessions
ReadsRegistry(op) ==
    op \in {"get_or_create_session", "close_session", "close_all_sessions",
            "cleanup", "shutdown", "list_sessions"}

NextRegistry ==
    \/ \E raw \in LifecyclePaths, ro \in BOOLEAN, fn \in BOOLEAN :
          calls < MaxCalls /\ GetOrCreateSession(raw, ro, fn, FALSE, TRUE)
    \/ \E raw \in LifecyclePaths, save \in BOOLEAN :
          calls < MaxCalls /\ CloseSession(raw, save)
    \/ \E save \in BOOLEAN : calls < MaxCalls /\ CloseAllSessions(save)
    \/ ListSessions
    \/ CleanupPass
    \/ StartCleanupTask
    \/ StopCleanupTask
    \/ \E sid \in SessionIds : HostCrash(sid)
    \/ Tick

SpecRegistry == Init /\ [][NextRegistry]_vars

\* C24: every step that changes the registry, and every operation that reads
\* it, runs with the session-manager lock held.
LockStep ==
    (sessions' # sessions \/ ReadsRegistry(ret'.op)) => UnderLock(ret'.op)

RegistryAccessUnderLock == [][LockStep]_vars

-----------------------------------------------------------------------------
(* Platform-binding initialisation: the sessions' pairs and the pair of the
   validate tool *)

ValidateBodies == {BodyOK2, BodyUnclosedIf, BodyNonAscii}

FileTypes == {"excel", "word", "access"}

\* validate_vba_code_tool: the two pre-checks, then a host of its own on a
\* temporary file, bracketed by its own CoInitialize / CoUninitialize.  The
\* temporary file is created and removed inside the call.
validate_vba_code_tool(st0, code, file_type) ==
    Bind(st0, LAMBDA st :
        LET st1 == Log(st,  Ev("CoInitialize", NoSession, file_type, TRUE))
            st2 == Log(st1, Ev("Dispatch", NoSession, file_type, TRUE))
            st3 == Log(st2, Ev("close", NoSession, file_type, TRUE))
            st4 == Log(st3, Ev("quit", NoSession, file_type, TRUE))
            st5 == Log(st4, Ev("CoUninitialize", NoSession, file_type, TRUE))
        IN IF _detect_non_ascii(code)
           THEN [st |-> st, err |-> "non_ascii", valid |-> FALSE]
           ELSE IF ~_check_vba_syntax(code)
           THEN [st |-> st, err |-> "syntax", valid |-> FALSE]
           ELSE IF file_type \notin {"excel", "word"}
           THEN [st |-> st, err |-> "ValueError", valid |-> FALSE]
           ELSE [st |-> st5, err |-> "none",
                 valid |-> _compile_vba_module(code)])

\* a call of the validate_vba_code tool
ValidateVbaCode(code, file_type) ==
    /\ calls < MaxCalls
    /\ \E r \in {validate_vba_code_tool(Cur, code, file_type)} :
          /\ Commit(r.st)
          /\ ret' = [op |-> "validate_vba_code", code |-> code,
                     file_type |-> file_type, err |-> r.err, valid |-> r.valid]
    /\ UNCHANGED <<extLock, now, cleanupTask>>

NextCom ==
    \/ \E raw \in LifecyclePaths, ro \in BOOLEAN, ok \in BOOLEAN :
          calls < MaxCalls /\ GetOrCreateSession(raw, ro, FALSE, FALSE, ok)
    \/ \E raw \in LifecyclePaths, save \in BOOLEAN :
          calls < MaxCalls /\ CloseSession(raw, save)
    \/ \E save \in BOOLEAN : calls < MaxCalls /\ CloseAllSessions(save)
    \/ \E code \in ValidateBodies, ft \in FileTypes : ValidateVbaCode(code, ft)
    \/ CleanupPass
    \/ StartCleanupTask
    \/ \E sid \in SessionIds : HostCrash(sid)
    \/ Tick

SpecCom == Init /\ [][NextCom]_vars

\* the session's pair is open: it was created and has not been destroyed
PairOpen(s) == s.status = "open"

\* C25: in every operation the initialisations and uninitialisations of a
\* session alternate, starting from whether its pair was open (one
\* initialisation when it is created, one uninitialisation when it is
\* destroyed or its creation fails), and an initialisation that is not a
\* session's own never happens while some session's pair is open.
PairStep ==
    LET log == oplog'
        N(s, e, i) == Cardinality({k \in 1..i : log[k].ev = e /\ log[k].sid = s})
        Bal(s, i) == (IF PairOpen(sess[s]) THEN 1 ELSE 0)
                        + N(s, "CoInitialize", i) - N(s, "CoUninitialize", i)
    IN ret'.op # "env"
       => /\ \A s \in SessionIds, i \in 0..Len(log) : Bal(s, i) \in {0, 1}
          /\ \A s \in SessionIds : PairOpen(sess'[s]) <=> Bal(s, Len(log)) = 1
          /\ \A i \in 1..Len(log) :
                (log[i].ev = "CoInitialize" /\ log[i].sid = NoSession)
                => \A s \in SessionIds : Bal(s, i) = 0

ComPairsStrict == [][PairStep]_vars

-----------------------------------------------------------------------------
(* Properties of session creation *)

\* C26: when the host was launched and opening the container then failed,
\* the host is quit before the call returns, so that it is not left running
\* outside the registry.
FailedCreateStep ==
    ret'.op = "get_or_create_session"
    => \A i \in 1..Len(oplog') :
          (oplog'[i].ev = "Open" /\ ~oplog'[i].flag)
          => /\ \E j \in (i + 1)..Len(oplog') :
                   oplog'[j].ev = "quit" /\ oplog'[j].sid = oplog'[i].sid
             /\ ~sess'[oplog'[i].sid].running

FailedCreationQuitsHost == [][FailedCreateStep]_vars

-----------------------------------------------------------------------------
(* Properties of the session that outlives a rejected injection *)

\* C27: after an injection failed its post-save verification and the
\* container was restored from the backup, closing the still-open session
\* leaves the container as restored: the rejected body is not written back.
NoWriteBackStep ==
    (/\ ret.op = "inject" /\ ret.msg = "restored"
     /\ ret'.op = "close_session" /\ ret'.key = ret.key)
    => disk'[ret.key] = disk[ret.key]

RejectedBodyNotWrittenBack == [][NoWriteBackStep]_vars

-----------------------------------------------------------------------------
(* Properties of the access mode of a session *)

\* C28: a call that asks for a writable session (read_only = FALSE) and
\* succeeds returns a session that was not opened read-only.
WritableStep ==
    (/\ ret'.op = "get_or_create_session" /\ ret'.err = "none"
     /\ ~ret'.read_only)
    => ~sess'[ret'.sid].read_only

WritableWhenRequested == [][WritableStep]_vars

-----------------------------------------------------------------------------
(* Properties of the origin and the identity of backups *)

\* C29: a restore of container F by id that succeeds overwrites F with a
\* backup that was created from F.
RestoreOriginStep ==
    (ret'.op = "backup_restore" /\ ret'.err = "none")
    => LET i == FirstWithId(manifest, ret'.id, 1)
       IN /\ i # 0
          /\ manifest[i].filename.file = ret'.key
          /\ disk'[ret'.key] = bdir[manifest[i].filename]

RestoreOnlyOwnBackup == [][RestoreOriginStep]_vars

\* C30: a backup creation that succeeds takes an id no entry of the manifest
\* has, writes a backup file that did not exist before, and leaves a
\* manifest whose ids are pairwise distinct.
CreateStep ==
    (ret'.op = "backup_create" /\ ret'.err = "none")
    => /\ \A i \in 1..Len(manifest) : manifest[i].id # ret'.id
       /\ \A n \in DOMAIN bdir : n \in DOMAIN bdir' /\ bdir'[n] = bdir[n]
       /\ Cardinality(DOMAIN bdir') = Cardinality(DOMAIN bdir) + 1
       /\ \A i, j \in 1..Len(manifest') :
             i # j => manifest'[i].id # manifest'[j].id

BackupIdsDistinct == [][CreateStep]_vars

====
